---- MODULE Spec2Model ----
(***************************************************************************)
(* A model of td::FileLoadManager (td/telegram/files/FileLoadManager.cpp): *)
(* the job registry (nodes_container_ and query_id_to_node_id_), the       *)
(* selection of resource managers, the dispatch of the loaders' events to  *)
(* the callback, and the hangup / drain logic.                             *)
(*                                                                         *)
(* Every handler of the actor is a function from the actor's state (a      *)
(* record, see Self) to the state it leaves behind; an action of the       *)
(* specification applies one handler to the current state.  The loaders    *)
(* are external actors: a loader holds the ActorShared link token it was   *)
(* given at creation and may send any event with it, in any order, until   *)
(* it drops the token (which delivers hangup_shared).                      *)
(***************************************************************************)
EXTENDS Integers, Sequences, FiniteSets, TLC

\* ------------------------------------------------------------------ bounds

\* query ids the caller uses: 1..MaxQueryId
MaxQueryId == 2
\* slots the container may grow to
MaxSlots == 2
\* generations of a slot that are explored (a slot is not reused beyond it)
MaxGeneration == 2

QueryIds == 1..MaxQueryId
DcIds == {1, 2}
\* sizes of a download: 10 KiB, 20 KiB, 50 KiB
Sizes == {10240, 20480, 51200}
Priorities == {1, 2}
\* a remote location is a web location or names its data centre
RemoteLocations == {[is_web |-> TRUE, dc_id |-> 0]} \cup {[is_web |-> FALSE, dc_id |-> d] : d \in DcIds}

\* an empty ActorOwn / ActorShared: a reference to no actor
NoActor == [slot |-> 0, generation |-> 0]
NoQuery == 0
NodeIds == [slot : 1..(MaxSlots + 1), generation : 1..(MaxGeneration + 2)]

\* ------------------------------------------------------------------ state

VARIABLES
  started,                              \* start_up() has run
  stop_flag_,
  stopped,                              \* stop() has been called
  crashed,                              \* a CHECK has failed: the process is aborted
  nodes_container_,                     \* Container<Node>: the slots
  query_id_to_node_id_,
  max_download_resource_limit_,
  upload_resource_manager_,
  download_small_resource_manager_map_,
  download_resource_manager_map_,
  is_premium,                           \* G()->get_option_boolean("is_premium"), now
  use_file_db,                          \* G()->parameters().use_file_db
  webfile_dc_id,                        \* G()->get_webfile_dc_id()
  actors,                               \* the loaders that still hold their link token
  terminated,                           \* node ids a terminal event was dispatched for
  premium_at_start_up                   \* is_premium as start_up() read it

vars == <<started, stop_flag_, stopped, crashed, nodes_container_, query_id_to_node_id_,
          max_download_resource_limit_, upload_resource_manager_,
          download_small_resource_manager_map_, download_resource_manager_map_,
          is_premium, use_file_db, webfile_dc_id, actors,
          terminated, premium_at_start_up>>

\* The members of the actor (and the loaders it owns) as one record, with what
\* a handler sends while it runs: out to callback_, loader_out to loaders,
\* rm_out to resource managers.  A handler starts with nothing sent.
Self ==
  [started |-> started, stop_flag_ |-> stop_flag_, stopped |-> stopped, crashed |-> crashed,
   nodes_container_ |-> nodes_container_, query_id_to_node_id_ |-> query_id_to_node_id_,
   max_download_resource_limit_ |-> max_download_resource_limit_,
   upload_resource_manager_ |-> upload_resource_manager_,
   download_small_resource_manager_map_ |-> download_small_resource_manager_map_,
   download_resource_manager_map_ |-> download_resource_manager_map_,
   actors |-> actors, out |-> <<>>, loader_out |-> <<>>, rm_out |-> <<>>,
   terminated |-> terminated,
   premium_at_start_up |-> premium_at_start_up]

\* The registry and the lifecycle: what a no-op must leave alone.
Registry(s) ==
  [stop_flag_ |-> s.stop_flag_, stopped |-> s.stopped, crashed |-> s.crashed,
   nodes_container_ |-> s.nodes_container_, query_id_to_node_id_ |-> s.query_id_to_node_id_,
   max_download_resource_limit_ |-> s.max_download_resource_limit_,
   upload_resource_manager_ |-> s.upload_resource_manager_,
   download_small_resource_manager_map_ |-> s.download_small_resource_manager_map_,
   download_resource_manager_map_ |-> s.download_resource_manager_map_,
   actors |-> s.actors]

\* ------------------------------------------------------------------ Container<Node>

\* Node(): no query id, no loader
Node == [query_id_ |-> NoQuery, loader_ |-> NoActor]

\* the slots that hold a node
UsedSlots(c) == {i \in 1..Len(c) : c[i].used}

\* decode_id: the slot an id resolves to, 0 when it resolves to nothing
decode_id(c, id) ==
  IF id.slot \in 1..Len(c) /\ c[id.slot].used /\ c[id.slot].generation = id.generation
  THEN id.slot ELSE 0

\* get: nullptr is modelled as "no slot"
Resolves(c, id) == decode_id(c, id) # 0
get(c, id) == c[decode_id(c, id)].data

\* the positions create may store into: a free slot, else a new one
FreeSlots(c) == {i \in 1..Len(c) : ~c[i].used /\ c[i].generation <= MaxGeneration}
CreatePositions(c) ==
  IF FreeSlots(c) # {} THEN FreeSlots(c)
  ELSE IF Len(c) < MaxSlots THEN {Len(c) + 1} ELSE {}

\* create at a position: the container and the id of the new node
ContainerCreate(c, pos, data) ==
  IF pos = Len(c) + 1
  THEN Append(c, [generation |-> 1, used |-> TRUE, data |-> data])
  ELSE [c EXCEPT ![pos] = [generation |-> c[pos].generation, used |-> TRUE, data |-> data]]
IdAt(c, pos) == [slot |-> pos, generation |-> c[pos].generation]

\* erase: the slot is released and its generation moves on
ContainerErase(c, id) ==
  IF ~Resolves(c, id) THEN c
  ELSE [c EXCEPT ![id.slot] = [generation |-> c[id.slot].generation + 1, used |-> FALSE, data |-> Node]]

ContainerEmpty(c) == UsedSlots(c) = {}

\* the ids of the live nodes
LiveIds(c) == {IdAt(c, i) : i \in UsedSlots(c)}

\* ------------------------------------------------------------------ helpers

\* an owning reference is dropped: the loader is told to hang up
Release(acts, loader) ==
  IF loader \in DOMAIN acts THEN [acts EXCEPT ![loader].owned = FALSE] ELSE acts

MapFind(m, k) == k \in DOMAIN m
MapPut(m, k, v) == [x \in DOMAIN m \cup {k} |-> IF x = k THEN v ELSE m[x]]
MapErase(m, k) == [x \in DOMAIN m \ {k} |-> m[x]]
EmptyMap == [x \in {} |-> 0]

Send(s, msg) == [s EXCEPT !.out = Append(@, msg)]
SendLoader(s, msg) == [s EXCEPT !.loader_out = Append(@, msg)]
SendResourceManager(s, msg) == [s EXCEPT !.rm_out = Append(@, msg)]

\* ------------------------------------------------------------------ start_up, resource managers

MAX_UPLOAD_RESOURCE_LIMIT == 4194304
\* the value max_download_resource_limit_ is constructed with
DefaultMaxDownloadResourceLimit == 2097152

\* create_actor<ResourceManager>(name, limit, mode)
ResourceManager(name, is_small, dc_id, limit, mode) ==
  [name |-> name, is_small |-> is_small, dc_id |-> dc_id, max_resource_limit |-> limit, mode |-> mode]

\* an empty ActorOwn<ResourceManager>
NoResourceManager ==
  [name |-> "", is_small |-> FALSE, dc_id |-> 0, max_resource_limit |-> 0, mode |-> ""]

start_up(s, premium, file_db) ==
  LET s1 == [s EXCEPT !.upload_resource_manager_ =
                        ResourceManager("UploadResourceManager", FALSE, 0, MAX_UPLOAD_RESOURCE_LIMIT,
                                        IF ~file_db THEN "Greedy" ELSE "Baseline"),
                      !.started = TRUE,
                      !.premium_at_start_up = premium]
  IN IF premium
     THEN [s1 EXCEPT !.max_download_resource_limit_ = @ * 8]
     ELSE s1

\* the map cell get_download_resource_manager selects
DownloadResourceManagerCell(is_small, dc_id) ==
  [map |-> IF is_small THEN "download_small_resource_manager_map_" ELSE "download_resource_manager_map_",
   dc_id |-> dc_id]

\* the actor in a cell (empty when the map has no such cell)
CellActor(s, cell) ==
  LET m == IF cell.map = "download_small_resource_manager_map_"
           THEN s.download_small_resource_manager_map_
           ELSE IF cell.map = "download_resource_manager_map_"
           THEN s.download_resource_manager_map_
           ELSE [x \in {0} |-> s.upload_resource_manager_]
  IN IF cell.dc_id \in DOMAIN m THEN m[cell.dc_id] ELSE NoResourceManager

\* get_download_resource_manager that reads the option is_premium for the limit
\* when it creates the actor
get_download_resource_manager_reads_option(s, is_small, dc_id) ==
  LET cell == DownloadResourceManagerCell(is_small, dc_id)
      actor == ResourceManager("DownloadResourceManager", is_small, dc_id,
                               IF is_premium THEN DefaultMaxDownloadResourceLimit * 8
                               ELSE DefaultMaxDownloadResourceLimit, "Baseline")
  IN IF CellActor(s, cell) # NoResourceManager THEN s
     ELSE IF cell.map = "download_small_resource_manager_map_"
     THEN SendResourceManager([s EXCEPT !.download_small_resource_manager_map_ = MapPut(@, dc_id, actor)],
                              [rm |-> cell, method |-> "create_actor", worker |-> NoActor, priority |-> 0])
     ELSE SendResourceManager([s EXCEPT !.download_resource_manager_map_ = MapPut(@, dc_id, actor)],
                              [rm |-> cell, method |-> "create_actor", worker |-> NoActor, priority |-> 0])

\* get_download_resource_manager that creates the actor with the mode start_up
\* chose for the upload resource manager
get_download_resource_manager_shares_mode(s, is_small, dc_id) ==
  LET cell == DownloadResourceManagerCell(is_small, dc_id)
      actor == ResourceManager("DownloadResourceManager", is_small, dc_id,
                               s.max_download_resource_limit_, s.upload_resource_manager_.mode)
  IN IF CellActor(s, cell) # NoResourceManager THEN s
     ELSE IF cell.map = "download_small_resource_manager_map_"
     THEN SendResourceManager([s EXCEPT !.download_small_resource_manager_map_ = MapPut(@, dc_id, actor)],
                              [rm |-> cell, method |-> "create_actor", worker |-> NoActor, priority |-> 0])
     ELSE SendResourceManager([s EXCEPT !.download_resource_manager_map_ = MapPut(@, dc_id, actor)],
                              [rm |-> cell, method |-> "create_actor", worker |-> NoActor, priority |-> 0])

\* get_download_resource_manager without the test actor.empty(): it creates a
\* new actor on every call
get_download_resource_manager_recreates(s, is_small, dc_id) ==
  LET cell == DownloadResourceManagerCell(is_small, dc_id)
      actor == ResourceManager("DownloadResourceManager", is_small, dc_id,
                               s.max_download_resource_limit_, "Baseline")
  IN IF cell.map = "download_small_resource_manager_map_"
     THEN SendResourceManager([s EXCEPT !.download_small_resource_manager_map_ = MapPut(@, dc_id, actor)],
                              [rm |-> cell, method |-> "create_actor", worker |-> NoActor, priority |-> 0])
     ELSE SendResourceManager([s EXCEPT !.download_resource_manager_map_ = MapPut(@, dc_id, actor)],
                              [rm |-> cell, method |-> "create_actor", worker |-> NoActor, priority |-> 0])

\* the state after get_download_resource_manager: the cell is filled if it was empty
get_download_resource_manager(s, is_small, dc_id) ==
  LET cell == DownloadResourceManagerCell(is_small, dc_id)
      actor == ResourceManager("DownloadResourceManager", is_small, dc_id,
                               s.max_download_resource_limit_, "Baseline")
  IN IF CellActor(s, cell) # NoResourceManager THEN s
     ELSE IF cell.map = "download_small_resource_manager_map_"
     THEN SendResourceManager([s EXCEPT !.download_small_resource_manager_map_ = MapPut(@, dc_id, actor)],
                              [rm |-> cell, method |-> "create_actor", worker |-> NoActor, priority |-> 0])
     ELSE SendResourceManager([s EXCEPT !.download_resource_manager_map_ = MapPut(@, dc_id, actor)],
                              [rm |-> cell, method |-> "create_actor", worker |-> NoActor, priority |-> 0])

UploadResourceManagerCell == [map |-> "upload_resource_manager_", dc_id |-> 0]

\* send_closure(resource_manager, &ResourceManager::register_worker, loader, priority)
register_worker(s, cell, loader, priority) ==
  SendResourceManager(s, [rm |-> cell, method |-> "register_worker", worker |-> loader, priority |-> priority])

\* ------------------------------------------------------------------ creating a job

\* nodes_container_.create(Node()); node->query_id_ = query_id; node->loader_ = create_actor<...>
create_node(s, pos, query_id, name) ==
  LET c == ContainerCreate(s.nodes_container_, pos, Node)
      node_id == IdAt(c, pos)
  IN [s EXCEPT !.nodes_container_ = [c EXCEPT ![pos].data = [query_id_ |-> query_id, loader_ |-> node_id]],
               !.actors = MapPut(@, node_id, [owned |-> TRUE])]

\* the id create_node gives the node it stores at pos
CreatedId(s, pos) == IdAt(ContainerCreate(s.nodes_container_, pos, Node), pos)

\* emplace_query_id with the result of emplace ignored and the entry overwritten
emplace_query_id_unchecked(s, query_id, node_id) ==
  [s EXCEPT !.query_id_to_node_id_ = MapPut(@, query_id, node_id)]

\* query_id_to_node_id_.emplace(query_id, node_id).second; CHECK(is_inserted)
emplace_query_id(s, query_id, node_id) ==
  IF MapFind(s.query_id_to_node_id_, query_id)
  THEN [s EXCEPT !.crashed = TRUE]
  ELSE [s EXCEPT !.query_id_to_node_id_ = MapPut(@, query_id, node_id)]

\* is_small_size with the threshold included
is_small_size_inclusive(size) == size <= 20 * 1024

\* bool is_small = size < 20 * 1024
is_small_size(size) == size < 20 * 1024

\* DcId dc_id = remote_location.is_web() ? G()->get_webfile_dc_id() : remote_location.get_dc_id()
download_dc_id(remote_location) ==
  IF remote_location.is_web THEN webfile_dc_id ELSE remote_location.dc_id

download(s, pos, query_id, remote_location, size, priority) ==
  IF s.stop_flag_ THEN s
  ELSE LET node_id == CreatedId(s, pos)
           s1 == create_node(s, pos, query_id, "Downloader")
           is_small == is_small_size(size)
           dc_id == download_dc_id(remote_location)
           s2 == get_download_resource_manager(s1, is_small, dc_id)
           s3 == register_worker(s2, DownloadResourceManagerCell(is_small, dc_id), node_id, priority)
       IN emplace_query_id(s3, query_id, node_id)

upload(s, pos, query_id, priority) ==
  IF s.stop_flag_ THEN s
  ELSE LET node_id == CreatedId(s, pos)
           s1 == create_node(s, pos, query_id, "Uploader")
           s2 == register_worker(s1, UploadResourceManagerCell, node_id, priority)
       IN emplace_query_id(s2, query_id, node_id)

\* upload_by_hash without register_worker
upload_by_hash_unregistered(s, pos, query_id, priority) ==
  IF s.stop_flag_ THEN s
  ELSE LET node_id == CreatedId(s, pos)
           s1 == create_node(s, pos, query_id, "HashUploader")
       IN emplace_query_id(s1, query_id, node_id)

upload_by_hash(s, pos, query_id, priority) ==
  IF s.stop_flag_ THEN s
  ELSE LET node_id == CreatedId(s, pos)
           s1 == create_node(s, pos, query_id, "HashUploader")
           s2 == register_worker(s1, UploadResourceManagerCell, node_id, priority)
       IN emplace_query_id(s2, query_id, node_id)

from_bytes(s, pos, query_id) ==
  IF s.stop_flag_ THEN s
  ELSE LET node_id == CreatedId(s, pos)
           s1 == create_node(s, pos, query_id, "FromBytes")
       IN emplace_query_id(s1, query_id, node_id)

\* ------------------------------------------------------------------ closing a node, the drain check

\* close_node without nodes_container_.erase(node_id)
close_node_keeps_node(s, node_id) ==
  IF ~Resolves(s.nodes_container_, node_id)
  THEN [s EXCEPT !.crashed = TRUE]
  ELSE LET node == get(s.nodes_container_, node_id)
       IN [s EXCEPT !.query_id_to_node_id_ = MapErase(@, node.query_id_)]

\* close_node without query_id_to_node_id_.erase(node->query_id_)
close_node_keeps_query_id(s, node_id) ==
  IF ~Resolves(s.nodes_container_, node_id)
  THEN [s EXCEPT !.crashed = TRUE]
  ELSE LET node == get(s.nodes_container_, node_id)
       IN [s EXCEPT !.nodes_container_ = ContainerErase(@, node_id),
                    !.actors = Release(@, node.loader_)]

\* close_node: CHECK(node); erase the query id and the node.  Destroying the node
\* drops its ActorOwn, which tells the loader to hang up.
close_node(s, node_id) ==
  IF ~Resolves(s.nodes_container_, node_id)
  THEN [s EXCEPT !.crashed = TRUE]
  ELSE LET node == get(s.nodes_container_, node_id)
       IN [s EXCEPT !.query_id_to_node_id_ = MapErase(@, node.query_id_),
                    !.nodes_container_ = ContainerErase(@, node_id),
                    !.actors = Release(@, node.loader_)]

\* loop that stops on stop_flag_ alone
loop_stops_on_flag(s) ==
  IF s.stop_flag_
  THEN [s EXCEPT !.stopped = TRUE]
  ELSE s

\* loop: stop() once stop_flag_ is set and no node is left
loop(s) ==
  IF s.stop_flag_ /\ ContainerEmpty(s.nodes_container_)
  THEN [s EXCEPT !.stopped = TRUE]
  ELSE s

\* CallbackMessage that reads the query id of the first node of the container
\* instead of the node the link token resolves to
CallbackMessage_first_node(s, event, node_id, status) ==
  [event |-> event,
   query_id |-> s.nodes_container_[CHOOSE i \in UsedSlots(s.nodes_container_) :
                                     \A j \in UsedSlots(s.nodes_container_) : i <= j].data.query_id_,
   status |-> status, node_id |-> node_id]

\* a message to callback_, tagged with the query id of the node (and, for the
\* record, with the node it was sent for)
CallbackMessage(s, event, node_id, status) ==
  [event |-> event, query_id |-> get(s.nodes_container_, node_id).query_id_,
   status |-> status, node_id |-> node_id]

\* a terminal event has been dispatched for the node (kept for the record)
dispatched(s, node_id) == [s EXCEPT !.terminated = @ \cup {node_id}]

\* the handlers of the loaders' events; node_id is get_link_token()
on_start_download(s, node_id) ==
  IF ~Resolves(s.nodes_container_, node_id) THEN s
  ELSE IF ~s.stop_flag_ THEN Send(s, CallbackMessage(s, "on_start_download", node_id, ""))
  ELSE s

on_partial_download(s, node_id) ==
  IF ~Resolves(s.nodes_container_, node_id) THEN s
  ELSE IF ~s.stop_flag_ THEN Send(s, CallbackMessage(s, "on_partial_download", node_id, ""))
  ELSE s

on_hash(s, node_id) ==
  IF ~Resolves(s.nodes_container_, node_id) THEN s
  ELSE IF ~s.stop_flag_ THEN Send(s, CallbackMessage(s, "on_hash", node_id, ""))
  ELSE s

on_partial_upload(s, node_id) ==
  IF ~Resolves(s.nodes_container_, node_id) THEN s
  ELSE IF ~s.stop_flag_ THEN Send(s, CallbackMessage(s, "on_partial_upload", node_id, ""))
  ELSE s

\* on_ok_download without close_node(node_id)
on_ok_download_keeps_node(s, node_id) ==
  IF ~Resolves(s.nodes_container_, node_id) THEN s
  ELSE LET s1 == IF ~s.stop_flag_ THEN Send(s, CallbackMessage(s, "on_download_ok", node_id, "")) ELSE s
       IN loop(dispatched(s1, node_id))

on_ok_download(s, node_id) ==
  IF ~Resolves(s.nodes_container_, node_id) THEN s
  ELSE LET s1 == IF ~s.stop_flag_ THEN Send(s, CallbackMessage(s, "on_download_ok", node_id, "")) ELSE s
           s2 == close_node(dispatched(s1, node_id), node_id)
       IN IF s2.crashed THEN s2 ELSE loop(s2)

\* on_ok_upload with close_node under the test of stop_flag_
on_ok_upload_closes_if_forwarded(s, node_id) ==
  IF ~Resolves(s.nodes_container_, node_id) THEN s
  ELSE IF ~s.stop_flag_
  THEN LET s1 == Send(s, CallbackMessage(s, "on_upload_ok", node_id, ""))
           s2 == close_node(dispatched(s1, node_id), node_id)
       IN IF s2.crashed THEN s2 ELSE loop(s2)
  ELSE loop(dispatched(s, node_id))

on_ok_upload(s, node_id) ==
  IF ~Resolves(s.nodes_container_, node_id) THEN s
  ELSE LET s1 == IF ~s.stop_flag_ THEN Send(s, CallbackMessage(s, "on_upload_ok", node_id, "")) ELSE s
           s2 == close_node(dispatched(s1, node_id), node_id)
       IN IF s2.crashed THEN s2 ELSE loop(s2)

on_ok_upload_full(s, node_id) ==
  IF ~Resolves(s.nodes_container_, node_id) THEN s
  ELSE LET s1 == IF ~s.stop_flag_ THEN Send(s, CallbackMessage(s, "on_upload_full_ok", node_id, "")) ELSE s
           s2 == close_node(dispatched(s1, node_id), node_id)
       IN IF s2.crashed THEN s2 ELSE loop(s2)

\* on_error_impl without the test of stop_flag_
on_error_impl_always_forwards(s, node_id, status) ==
  IF ~Resolves(s.nodes_container_, node_id) THEN s
  ELSE LET s1 == Send(s, CallbackMessage(s, "on_error", node_id, status))
           s2 == close_node(dispatched(s1, node_id), node_id)
       IN IF s2.crashed THEN s2 ELSE loop(s2)

on_error_impl(s, node_id, status) ==
  IF ~Resolves(s.nodes_container_, node_id) THEN s
  ELSE LET s1 == IF ~s.stop_flag_ THEN Send(s, CallbackMessage(s, "on_error", node_id, status)) ELSE s
           s2 == close_node(dispatched(s1, node_id), node_id)
       IN IF s2.crashed THEN s2 ELSE loop(s2)

on_error(s, node_id, status) == on_error_impl(s, node_id, status)

\* hangup_shared that closes the node without on_error_impl
hangup_shared_closes_node(s, node_id) ==
  IF ~Resolves(s.nodes_container_, node_id) THEN s
  ELSE LET s1 == close_node(dispatched(s, node_id), node_id)
       IN IF s1.crashed THEN s1 ELSE loop(s1)

hangup_shared(s, node_id) == on_error_impl(s, node_id, "Canceled")

\* ------------------------------------------------------------------ operations on a query id

\* a message to the loader of a node
LoaderMessage(node, method, arg) == [to |-> node.loader_, method |-> method, arg |-> arg]

\* update_priority without the test of stop_flag_
update_priority_ignores_stop_flag(s, query_id, priority) ==
  IF ~MapFind(s.query_id_to_node_id_, query_id) THEN s
  ELSE IF ~Resolves(s.nodes_container_, s.query_id_to_node_id_[query_id]) THEN s
  ELSE SendLoader(s, LoaderMessage(get(s.nodes_container_, s.query_id_to_node_id_[query_id]),
                                   "update_priority", priority))

update_priority(s, query_id, priority) ==
  IF s.stop_flag_ THEN s
  ELSE IF ~MapFind(s.query_id_to_node_id_, query_id) THEN s
  ELSE IF ~Resolves(s.nodes_container_, s.query_id_to_node_id_[query_id]) THEN s
  ELSE SendLoader(s, LoaderMessage(get(s.nodes_container_, s.query_id_to_node_id_[query_id]),
                                   "update_priority", priority))

\* cancel that reports a query id it does not know
cancel_reports_unknown(s, query_id) ==
  IF s.stop_flag_ THEN s
  ELSE IF ~MapFind(s.query_id_to_node_id_, query_id)
  THEN Send(s, [event |-> "on_error", query_id |-> query_id, status |-> "Canceled", node_id |-> NoActor])
  ELSE on_error_impl(s, s.query_id_to_node_id_[query_id], "Canceled")

\* cancel that drops the loader and leaves the node to the loader's hangup_shared
cancel_waits_for_loader(s, query_id) ==
  IF s.stop_flag_ THEN s
  ELSE IF ~MapFind(s.query_id_to_node_id_, query_id) THEN s
  ELSE [s EXCEPT !.actors = Release(@, s.query_id_to_node_id_[query_id])]

\* cancel that closes the node itself, without on_error_impl
cancel_closes_silently(s, query_id) ==
  IF s.stop_flag_ THEN s
  ELSE IF ~MapFind(s.query_id_to_node_id_, query_id) THEN s
  ELSE LET s1 == close_node(dispatched(s, s.query_id_to_node_id_[query_id]),
                            s.query_id_to_node_id_[query_id])
       IN IF s1.crashed THEN s1 ELSE loop(s1)

cancel(s, query_id) ==
  IF s.stop_flag_ THEN s
  ELSE IF ~MapFind(s.query_id_to_node_id_, query_id) THEN s
  ELSE on_error_impl(s, s.query_id_to_node_id_[query_id], "Canceled")

update_local_file_location(s, query_id) ==
  IF s.stop_flag_ THEN s
  ELSE IF ~MapFind(s.query_id_to_node_id_, query_id) THEN s
  ELSE IF ~Resolves(s.nodes_container_, s.query_id_to_node_id_[query_id]) THEN s
  ELSE SendLoader(s, LoaderMessage(get(s.nodes_container_, s.query_id_to_node_id_[query_id]),
                                   "update_local_file_location", 0))

update_downloaded_part(s, query_id) ==
  IF s.stop_flag_ THEN s
  ELSE IF ~MapFind(s.query_id_to_node_id_, query_id) THEN s
  ELSE IF ~Resolves(s.nodes_container_, s.query_id_to_node_id_[query_id]) THEN s
  ELSE SendLoader(s, LoaderMessage(get(s.nodes_container_, s.query_id_to_node_id_[query_id]),
                                   "update_downloaded_part", s.max_download_resource_limit_))

\* node.loader_.reset() for the node in a slot
reset_loader(s, i) ==
  [s EXCEPT !.actors = Release(@, s.nodes_container_[i].data.loader_),
            !.nodes_container_[i].data.loader_ = NoActor]

\* nodes_container_.for_each(reset the loader), over the slots from..Len
RECURSIVE reset_loaders(_, _)
reset_loaders(s, from) ==
  IF from > Len(s.nodes_container_) THEN s
  ELSE reset_loaders(IF s.nodes_container_[from].used THEN reset_loader(s, from) ELSE s, from + 1)

\* hangup that sets stop_flag_ and keeps the loaders
hangup_keeps_loaders(s) ==
  loop([s EXCEPT !.stop_flag_ = TRUE])

\* hangup that also erases every node and every query id at once
hangup_clears_registry(s) ==
  LET s1 == reset_loaders(s, 1)
      c == s1.nodes_container_
  IN loop([s1 EXCEPT !.stop_flag_ = TRUE,
                     !.nodes_container_ =
                       [i \in 1..Len(c) |->
                          IF c[i].used
                          THEN [generation |-> c[i].generation + 1, used |-> FALSE, data |-> Node]
                          ELSE c[i]],
                     !.query_id_to_node_id_ = EmptyMap])

hangup(s) ==
  loop([reset_loaders(s, 1) EXCEPT !.stop_flag_ = TRUE])

\* ------------------------------------------------------------------ the specification

\* the statuses a loader fails with
Statuses == {"Error"}

Init ==
  /\ started = FALSE
  /\ stop_flag_ = FALSE
  /\ stopped = FALSE
  /\ crashed = FALSE
  /\ nodes_container_ = <<>>
  /\ query_id_to_node_id_ = EmptyMap
  /\ max_download_resource_limit_ = DefaultMaxDownloadResourceLimit
  /\ upload_resource_manager_ = NoResourceManager
  /\ download_small_resource_manager_map_ = EmptyMap
  /\ download_resource_manager_map_ = EmptyMap
  /\ is_premium \in BOOLEAN
  /\ use_file_db \in BOOLEAN
  /\ webfile_dc_id \in DcIds
  /\ actors = EmptyMap
  /\ terminated = {}
  /\ premium_at_start_up = FALSE

\* the step that runs a handler: s is the state the handler leaves
Apply(s) ==
  /\ started' = s.started
  /\ stop_flag_' = s.stop_flag_
  /\ stopped' = s.stopped
  /\ crashed' = s.crashed
  /\ nodes_container_' = s.nodes_container_
  /\ query_id_to_node_id_' = s.query_id_to_node_id_
  /\ max_download_resource_limit_' = s.max_download_resource_limit_
  /\ upload_resource_manager_' = s.upload_resource_manager_
  /\ download_small_resource_manager_map_' = s.download_small_resource_manager_map_
  /\ download_resource_manager_map_' = s.download_resource_manager_map_
  /\ actors' = s.actors
  /\ terminated' = s.terminated
  /\ premium_at_start_up' = s.premium_at_start_up
  /\ UNCHANGED <<is_premium, use_file_db, webfile_dc_id>>

\* the actor handles messages from start_up() until stop() or an abort
Alive == started /\ ~stopped /\ ~crashed

\* the positions a create request may be given: none is needed after hangup
Positions == IF stop_flag_ THEN {0} ELSE CreatePositions(nodes_container_)

StartUp ==
  /\ ~started
  /\ Apply(start_up(Self, is_premium, use_file_db))

\* the option is_premium changes
SetPremium ==
  /\ ~stopped /\ ~crashed
  /\ is_premium' = ~is_premium
  /\ UNCHANGED <<started, stop_flag_, stopped, crashed, nodes_container_, query_id_to_node_id_,
                 max_download_resource_limit_, upload_resource_manager_,
                 download_small_resource_manager_map_, download_resource_manager_map_,
                 use_file_db, webfile_dc_id, actors, terminated,
                 premium_at_start_up>>

Download ==
  /\ Alive
  /\ \E pos \in Positions, query_id \in QueryIds, remote_location \in RemoteLocations,
        size \in Sizes, priority \in Priorities :
       Apply(download(Self, pos, query_id, remote_location, size, priority))

Upload ==
  /\ Alive
  /\ \E pos \in Positions, query_id \in QueryIds, priority \in Priorities :
       Apply(upload(Self, pos, query_id, priority))

UploadByHash ==
  /\ Alive
  /\ \E pos \in Positions, query_id \in QueryIds, priority \in Priorities :
       Apply(upload_by_hash(Self, pos, query_id, priority))

FromBytes ==
  /\ Alive
  /\ \E pos \in Positions, query_id \in QueryIds :
       Apply(from_bytes(Self, pos, query_id))

UpdatePriority ==
  /\ Alive
  /\ \E query_id \in QueryIds, priority \in Priorities :
       Apply(update_priority(Self, query_id, priority))

Cancel ==
  /\ Alive
  /\ \E query_id \in QueryIds :
       Apply(cancel(Self, query_id))

UpdateLocalFileLocation ==
  /\ Alive
  /\ \E query_id \in QueryIds :
       Apply(update_local_file_location(Self, query_id))

UpdateDownloadedPart ==
  /\ Alive
  /\ \E query_id \in QueryIds :
       Apply(update_downloaded_part(Self, query_id))

\* the owner of the actor lets go of it, once
Hangup ==
  /\ Alive
  /\ ~stop_flag_
  /\ Apply(hangup(Self))

\* a loader that holds its link token sends an event with it; the handlers do not
\* look at the kind of the loader, so every loader may send every event
OnStartDownload ==
  /\ Alive
  /\ \E node_id \in DOMAIN actors : Apply(on_start_download(Self, node_id))

OnPartialDownload ==
  /\ Alive
  /\ \E node_id \in DOMAIN actors : Apply(on_partial_download(Self, node_id))

OnHash ==
  /\ Alive
  /\ \E node_id \in DOMAIN actors : Apply(on_hash(Self, node_id))

OnPartialUpload ==
  /\ Alive
  /\ \E node_id \in DOMAIN actors : Apply(on_partial_upload(Self, node_id))

OnOkDownload ==
  /\ Alive
  /\ \E node_id \in DOMAIN actors : Apply(on_ok_download(Self, node_id))

OnOkUpload ==
  /\ Alive
  /\ \E node_id \in DOMAIN actors : Apply(on_ok_upload(Self, node_id))

OnOkUploadFull ==
  /\ Alive
  /\ \E node_id \in DOMAIN actors : Apply(on_ok_upload_full(Self, node_id))

OnError ==
  /\ Alive
  /\ \E node_id \in DOMAIN actors, status \in Statuses :
       Apply(on_error(Self, node_id, status))

\* a loader drops its link token: hangup_shared is delivered and the loader
\* sends nothing after it
HangupShared(node_id) ==
  /\ Alive
  /\ node_id \in DOMAIN actors
  /\ Apply([hangup_shared(Self, node_id) EXCEPT !.actors = MapErase(@, node_id)])

OnHangupShared == \E node_id \in DOMAIN actors : HangupShared(node_id)

\* a loader that was told to hang up drops its link token
ReleasedHangupShared ==
  \E node_id \in DOMAIN actors : ~actors[node_id].owned /\ HangupShared(node_id)

Next ==
  \/ StartUp
  \/ SetPremium
  \/ Download
  \/ Upload
  \/ UploadByHash
  \/ FromBytes
  \/ UpdatePriority
  \/ Cancel
  \/ UpdateLocalFileLocation
  \/ UpdateDownloadedPart
  \/ Hangup
  \/ OnStartDownload
  \/ OnPartialDownload
  \/ OnHash
  \/ OnPartialUpload
  \/ OnOkDownload
  \/ OnOkUpload
  \/ OnOkUploadFull
  \/ OnError
  \/ OnHangupShared

Spec == Init /\ [][Next]_vars

\* The drain under fairness: every loader told to hang up drops its link token
\* in the end.  The options are read by start_up and get_download_resource_manager
\* alone, so one choice of them is explored here.
InitDrain == Init /\ ~is_premium /\ use_file_db /\ webfile_dc_id = 2

FairSpec == InitDrain /\ [][Next]_vars /\ WF_vars(ReleasedHangupShared)

\* ------------------------------------------------------------------ what the claims speak of

\* the live jobs (nodes) that carry a query id
JobsOf(s, query_id) ==
  {id \in LiveIds(s.nodes_container_) : get(s.nodes_container_, id).query_id_ = query_id}

\* the query id maps to a live job
TokenLive(s, query_id) == JobsOf(s, query_id) # {}

\* the results of every create request with a query id, in the current state
CreateResults(query_id) ==
  {download(Self, pos, query_id, remote_location, size, priority) :
     pos \in Positions, remote_location \in RemoteLocations, size \in Sizes, priority \in Priorities}
  \cup {upload(Self, pos, query_id, priority) : pos \in Positions, priority \in Priorities}
  \cup {upload_by_hash(Self, pos, query_id, priority) : pos \in Positions, priority \in Priorities}
  \cup {from_bytes(Self, pos, query_id) : pos \in Positions}

\* the results of every event a loader may send with a link token, hangup_shared included
EventResults(node_id) ==
  {on_start_download(Self, node_id), on_partial_download(Self, node_id), on_hash(Self, node_id),
   on_partial_upload(Self, node_id), on_ok_download(Self, node_id), on_ok_upload(Self, node_id),
   on_ok_upload_full(Self, node_id), hangup_shared(Self, node_id)}
  \cup {on_error(Self, node_id, status) : status \in Statuses}

\* the results of every operation on a query id that creates no job
QueryResults(query_id) ==
  {cancel(Self, query_id), update_local_file_location(Self, query_id),
   update_downloaded_part(Self, query_id)}
  \cup {update_priority(Self, query_id, priority) : priority \in Priorities}

\* ------------------------------------------------------------------ C1

\* C1 as stated: while the actor runs, no query id has two live jobs, and every
\* create request with a query id that maps to a live job aborts the process.
C1_Original ==
  Alive =>
    /\ \A query_id \in QueryIds : Cardinality(JobsOf(Self, query_id)) <= 1
    /\ \A query_id \in QueryIds :
         TokenLive(Self, query_id) => \A r \in CreateResults(query_id) : r.crashed

\* C1, amended: in every state of a process that has not aborted no query id has
\* two live jobs.  Before hangup, a create request (download, upload,
\* upload_by_hash, from_bytes) with a query id that maps to a live job fails its
\* CHECK: the process aborts and nothing is sent to the callback.  After
\* hangup the same request returns at once and changes nothing.
C1_UniqueQueryId ==
  /\ ~crashed => \A query_id \in QueryIds : Cardinality(JobsOf(Self, query_id)) <= 1
  /\ Alive =>
       \A query_id \in QueryIds :
         TokenLive(Self, query_id) =>
           \A r \in CreateResults(query_id) :
             IF stop_flag_ THEN r = Self ELSE r.crashed /\ r.out = <<>>

\* a create request with a live query id has aborted the process
C1_Witness ==
  crashed /\ \E query_id \in QueryIds : Cardinality(JobsOf(Self, query_id)) = 2

\* ------------------------------------------------------------------ C2

\* C2: once a terminal event (on_ok_download, on_ok_upload, on_ok_upload_full,
\* on_error, hangup_shared, or the on_error_impl of cancel) has been dispatched
\* for a node, every event a loader sends with the link token of that node is
\* dropped: nothing is sent to the callback and the state does not change.
C2_NoEventAfterTerminal ==
  \A node_id \in terminated :
    \A r \in EventResults(node_id) : r.out = <<>> /\ r = Self

\* a loader still holds the link token of a node a terminal event was dispatched for
C2_Witness ==
  Alive /\ ~stop_flag_ /\ \E node_id \in terminated : node_id \in DOMAIN actors

\* ------------------------------------------------------------------ C3

\* what cancel(query_id) leaves behind when it cancels the job: one on_error
\* with "Canceled" for the query id, the node gone from nodes_container_ and
\* from query_id_to_node_id_, and the loader not yet heard from
Canceled(query_id) ==
  LET r == cancel(Self, query_id)
  IN \A node_id \in JobsOf(Self, query_id) :
       /\ r.out = <<[event |-> "on_error", query_id |-> query_id, status |-> "Canceled",
                     node_id |-> node_id]>>
       /\ ~Resolves(r.nodes_container_, node_id)
       /\ JobsOf(r, query_id) = {}
       /\ ~MapFind(r.query_id_to_node_id_, query_id)
       /\ node_id \in DOMAIN r.actors
       /\ ~r.crashed

\* C3 as stated: cancel of a query id with a live job always sends one
\* on_error "Canceled" and removes the job at once.
C3_Original ==
  Alive => \A query_id \in QueryIds : TokenLive(Self, query_id) => Canceled(query_id)

\* C3, amended: before hangup, cancel(query_id) of a query id with a live job
\* sends exactly one on_error "Canceled" tagged with the query id, and at the
\* end of cancel the job is in neither nodes_container_ nor
\* query_id_to_node_id_, while its loader still holds its link token.
C3_CancelReclaims ==
  (Alive /\ ~stop_flag_) =>
    \A query_id \in QueryIds : TokenLive(Self, query_id) => Canceled(query_id)

\* a live job that cancel reclaims
C3_Witness ==
  /\ Alive /\ ~stop_flag_
  /\ \E query_id \in QueryIds :
       /\ TokenLive(Self, query_id)
       /\ Len(cancel(Self, query_id).out) = 1
       /\ ~TokenLive(cancel(Self, query_id), query_id)

\* ------------------------------------------------------------------ C4

\* C4: once hangup has set stop_flag_, no handler sends anything to the
\* callback: not for an event of any loader, not for any request of the caller.
C4_SilentAfterHangup ==
  stop_flag_ =>
    /\ \A node_id \in NodeIds : \A r \in EventResults(node_id) : r.out = <<>>
    /\ \A query_id \in QueryIds :
         \A r \in CreateResults(query_id) \cup QueryResults(query_id) : r.out = <<>>

\* hangup has run while a job is live and its loader holds its link token
C4_Witness ==
  Alive /\ stop_flag_ /\ \E node_id \in LiveIds(nodes_container_) : node_id \in DOMAIN actors

\* ------------------------------------------------------------------ C5

\* C5: if every loader that was told to hang up drops its link token in the end
\* (FairSpec), then after hangup the registry becomes empty and the actor
\* stops: no job stays live for ever once stop_flag_ is set.
C5_Drains ==
  stop_flag_ ~> (stopped /\ ContainerEmpty(nodes_container_) /\ DOMAIN query_id_to_node_id_ = {})

\* hangup has run and jobs are still live: the actor is draining
C5_Witness ==
  stop_flag_ /\ ~stopped /\ Cardinality(LiveIds(nodes_container_)) = 2

\* ------------------------------------------------------------------ C6

\* the query ids of the live jobs
LiveQueryIds(s) == {get(s.nodes_container_, id).query_id_ : id \in LiveIds(s.nodes_container_)}

\* C6: the id of a node a terminal event was dispatched for resolves to nothing
\* from then on, also when a new node is stored in the same slot; an event or a
\* hangup_shared that arrives with it leaves every live job in place, with its
\* query id and its entry in query_id_to_node_id_, and sends the callback
\* nothing tagged with the query id of a live job.
C6_ClosedIdNeverResolves ==
  \A old_id \in terminated :
    /\ ~Resolves(nodes_container_, old_id)
    /\ \A r \in EventResults(old_id) :
         /\ \A node_id \in LiveIds(nodes_container_) :
              /\ Resolves(r.nodes_container_, node_id)
              /\ get(r.nodes_container_, node_id) = get(nodes_container_, node_id)
         /\ r.query_id_to_node_id_ = query_id_to_node_id_
         /\ \A i \in 1..Len(r.out) : r.out[i].query_id \notin LiveQueryIds(Self)

\* the loader of a closed node still holds its link token while a new job lives
\* in the slot of the closed node
C6_Witness ==
  /\ Alive /\ ~stop_flag_
  /\ \E old_id \in terminated :
       /\ old_id \in DOMAIN actors
       /\ \E node_id \in LiveIds(nodes_container_) :
            node_id.slot = old_id.slot /\ node_id.generation > old_id.generation

\* ------------------------------------------------------------------ C7

\* C7: while the actor runs, cancel, update_priority, update_local_file_location
\* and update_downloaded_part with a query id that has no live job change nothing:
\* nothing is sent to the callback, to a loader or to a resource manager, and
\* the registry, the resource managers and the lifecycle flags stay as they are.
C7_UnknownQueryIdIsNoOp ==
  \A query_id \in QueryIds :
    (Alive /\ ~TokenLive(Self, query_id)) =>
      \A r \in QueryResults(query_id) :
        /\ r.out = <<>> /\ r.loader_out = <<>> /\ r.rm_out = <<>>
        /\ Registry(r) = Registry(Self)
        /\ r = Self

\* before hangup, one query id has a live job and another has none
C7_Witness ==
  /\ Alive /\ ~stop_flag_
  /\ \E known \in QueryIds, unknown \in QueryIds :
       TokenLive(Self, known) /\ ~TokenLive(Self, unknown)

\* ------------------------------------------------------------------ C8

\* the cells of the two maps of download resource managers
DownloadCells ==
  {[map |-> m, dc_id |-> d] :
     m \in {"download_small_resource_manager_map_", "download_resource_manager_map_"}, d \in DcIds}

\* the data centre a download goes to
Destination(remote_location) ==
  IF remote_location.is_web THEN webfile_dc_id ELSE remote_location.dc_id

\* the register_worker messages a handler has sent
Registrations(r) ==
  {r.rm_out[i] : i \in {j \in 1..Len(r.rm_out) : r.rm_out[j].method = "register_worker"}}

\* the resource managers download registers a loader with
DownloadRegisteredWith(pos, remote_location, size) ==
  {m.rm : m \in Registrations(download(Self, pos, 1, remote_location, size, 1))}

\* C8: before hangup, download registers its loader with exactly one resource
\* manager: the one in the cell of the small map if size < 20480 and of the
\* other map otherwise, at the data centre of the download, and that resource
\* manager exists and was made for this size class and data centre.  A resource
\* manager that existed before the download is the same after it.  Two
\* downloads register with the same cell exactly if they agree in size class
\* and data centre.
C8_DownloadPool ==
  (Alive /\ ~stop_flag_) =>
    \A pos \in Positions :
      /\ \A query_id \in QueryIds, remote_location \in RemoteLocations, size \in Sizes,
            priority \in Priorities :
           LET r == download(Self, pos, query_id, remote_location, size, priority)
               cell == [map |-> IF size < 20480 THEN "download_small_resource_manager_map_"
                                ELSE "download_resource_manager_map_",
                        dc_id |-> Destination(remote_location)]
           IN /\ Registrations(r) = {[rm |-> cell, method |-> "register_worker",
                                      worker |-> CreatedId(Self, pos), priority |-> priority]}
              /\ CellActor(r, cell) # NoResourceManager
              /\ CellActor(r, cell).is_small = (size < 20480)
              /\ CellActor(r, cell).dc_id = Destination(remote_location)
              /\ \A other \in DownloadCells :
                   (other # cell \/ CellActor(Self, other) # NoResourceManager)
                     => CellActor(r, other) = CellActor(Self, other)
              /\ r.upload_resource_manager_ = upload_resource_manager_
      /\ \A l1 \in RemoteLocations, l2 \in RemoteLocations, s1 \in Sizes, s2 \in Sizes :
           (DownloadRegisteredWith(pos, l1, s1) = DownloadRegisteredWith(pos, l2, s2))
             <=> ((s1 < 20480) = (s2 < 20480) /\ Destination(l1) = Destination(l2))

\* downloads of both size classes to one data centre and of one size class to
\* two data centres have created their resource managers
C8_Witness ==
  /\ Alive /\ ~stop_flag_
  /\ \A d \in DcIds : MapFind(download_small_resource_manager_map_, d)
  /\ \E d \in DcIds : MapFind(download_resource_manager_map_, d)
  /\ Positions # {}

\* ------------------------------------------------------------------ C9

\* a handler has registered the loader of the node it stores at pos with the
\* upload resource manager, and with nothing else
RegisteredForUpload(r, pos) ==
  /\ \E priority \in Priorities :
       r.rm_out = <<[rm |-> UploadResourceManagerCell, method |-> "register_worker",
                     worker |-> CreatedId(Self, pos), priority |-> priority]>>
  /\ r.upload_resource_manager_ = upload_resource_manager_
  /\ upload_resource_manager_ # NoResourceManager

\* C9 as stated: before hangup, upload, upload_by_hash and from_bytes each
\* register the loader they create with the upload resource manager.
C9_Original ==
  (Alive /\ ~stop_flag_) =>
    \A pos \in Positions, query_id \in QueryIds :
      /\ \A priority \in Priorities :
           /\ RegisteredForUpload(upload(Self, pos, query_id, priority), pos)
           /\ RegisteredForUpload(upload_by_hash(Self, pos, query_id, priority), pos)
      /\ RegisteredForUpload(from_bytes(Self, pos, query_id), pos)

\* C9, amended: before hangup, upload and upload_by_hash each register the
\* loader they create with the one upload_resource_manager_ and with no
\* download resource manager; from_bytes creates its loader and registers it
\* with no resource manager at all.
C9_UploadPool ==
  (Alive /\ ~stop_flag_) =>
    \A pos \in Positions, query_id \in QueryIds :
      /\ \A priority \in Priorities :
           /\ RegisteredForUpload(upload(Self, pos, query_id, priority), pos)
           /\ RegisteredForUpload(upload_by_hash(Self, pos, query_id, priority), pos)
      /\ LET r == from_bytes(Self, pos, query_id)
         IN /\ r.rm_out = <<>>
            /\ CreatedId(Self, pos) \in DOMAIN r.actors
            /\ Resolves(r.nodes_container_, CreatedId(Self, pos))

\* before hangup a job can be created while another one is live
C9_Witness ==
  /\ Alive /\ ~stop_flag_ /\ ~ContainerEmpty(nodes_container_)
  /\ \E pos \in Positions, query_id \in QueryIds :
       /\ ~TokenLive(Self, query_id)
       /\ Len(upload_by_hash(Self, pos, query_id, 1).rm_out) = 1
       /\ Len(from_bytes(Self, pos, query_id).rm_out) = 0

\* ------------------------------------------------------------------ C10

\* the limit start_up settles on
DownloadBudget ==
  IF premium_at_start_up THEN DefaultMaxDownloadResourceLimit * 8 ELSE DefaultMaxDownloadResourceLimit

\* C10: from start_up on, max_download_resource_limit_ is the default limit
\* times 8 if is_premium was set when start_up ran and the default limit
\* otherwise, whatever is_premium is now; every download resource manager that
\* exists has this limit, and so has every one a download creates next.
C10_BudgetFixedAtStartUp ==
  /\ ~started => max_download_resource_limit_ = DefaultMaxDownloadResourceLimit
  /\ started =>
       /\ max_download_resource_limit_ = DownloadBudget
       /\ \A cell \in DownloadCells :
            CellActor(Self, cell) # NoResourceManager
              => CellActor(Self, cell).max_resource_limit = DownloadBudget
       /\ (Alive /\ ~stop_flag_) =>
            \A pos \in Positions, remote_location \in RemoteLocations, size \in Sizes :
              LET r == download(Self, pos, 1, remote_location, size, 1)
              IN \A cell \in DownloadCells :
                   CellActor(r, cell) # NoResourceManager
                     => CellActor(r, cell).max_resource_limit = DownloadBudget

\* is_premium has changed since start_up; a download resource manager exists
\* and a download can create another
C10_Witness ==
  /\ Alive /\ ~stop_flag_ /\ Positions # {}
  /\ is_premium # premium_at_start_up
  /\ \E cell \in DownloadCells : CellActor(Self, cell) # NoResourceManager
  /\ \E cell \in DownloadCells : CellActor(Self, cell) = NoResourceManager

\* ------------------------------------------------------------------ C11

\* the mode start_up picks: Greedy without a file database, Baseline with one
StartUpMode == IF ~use_file_db THEN "Greedy" ELSE "Baseline"

\* the download resource managers that exist in a state
DownloadResourceManagers(s) ==
  {CellActor(s, cell) : cell \in {c \in DownloadCells : CellActor(s, c) # NoResourceManager}}

\* the download resource managers that exist now or after one more download
DownloadResourceManagersNext ==
  DownloadResourceManagers(Self)
  \cup (IF Alive /\ ~stop_flag_
        THEN UNION {DownloadResourceManagers(download(Self, pos, 1, remote_location, size, 1)) :
                      pos \in Positions, remote_location \in RemoteLocations, size \in Sizes}
        ELSE {})

\* C11 as stated: the mode start_up picks (Greedy without a file database,
\* Baseline with one) is the mode of every download resource manager that is
\* ever created.
C11_Original ==
  started => \A rm \in DownloadResourceManagersNext : rm.mode = StartUpMode

\* C11, amended: the mode start_up picks (Greedy without a file database,
\* Baseline with one) is the mode of the upload resource manager alone; every
\* download resource manager that is ever created has the mode Baseline,
\* with or without a file database.
C11_ModeOfResourceManagers ==
  started =>
    /\ upload_resource_manager_.mode = StartUpMode
    /\ \A rm \in DownloadResourceManagersNext : rm.mode = "Baseline"

\* without a file database, a download resource manager exists and a download
\* can create another
C11_Witness ==
  /\ Alive /\ ~stop_flag_ /\ Positions # {}
  /\ ~use_file_db
  /\ upload_resource_manager_.mode = "Greedy"
  /\ DownloadResourceManagers(Self) # {}
  /\ \E cell \in DownloadCells : CellActor(Self, cell) = NoResourceManager

\* ------------------------------------------------------------------ C12

\* the results of every create request that stores its node at pos
CreateResultsAt(pos, query_id) ==
  {download(Self, pos, query_id, remote_location, size, priority) :
     remote_location \in RemoteLocations, size \in Sizes, priority \in Priorities}
  \cup {upload(Self, pos, query_id, priority) : priority \in Priorities}
  \cup {upload_by_hash(Self, pos, query_id, priority) : priority \in Priorities}
  \cup {from_bytes(Self, pos, query_id)}

\* a create request stores the query id it was given in the node whose id it
\* hands to the loader as link token
CreatedWithQueryId ==
  (Alive /\ ~stop_flag_) =>
    \A pos \in Positions, query_id \in QueryIds :
      \A r \in CreateResultsAt(pos, query_id) :
        /\ Resolves(r.nodes_container_, CreatedId(Self, pos))
        /\ get(r.nodes_container_, CreatedId(Self, pos)).query_id_ = query_id
        /\ CreatedId(Self, pos) \in DOMAIN r.actors
        /\ r.out = <<>>

\* every message an event of a loader sends to the callback carries the query
\* id of the node of that loader, and a message of cancel the query id given
ForwardedWithQueryId ==
  Alive =>
    /\ \A node_id \in NodeIds :
         \A r \in EventResults(node_id) :
           \A i \in 1..Len(r.out) :
             /\ node_id \in LiveIds(nodes_container_)
             /\ r.out[i].node_id = node_id
             /\ r.out[i].query_id = get(nodes_container_, node_id).query_id_
    /\ \A query_id \in QueryIds :
         \A r \in QueryResults(query_id) :
           \A i \in 1..Len(r.out) : r.out[i].query_id = query_id

\* a node keeps its query id for as long as its id resolves
QueryIdKept ==
  \A node_id \in LiveIds(nodes_container_) :
    Resolves(nodes_container_', node_id)
      => get(nodes_container_', node_id).query_id_ = get(nodes_container_, node_id).query_id_

\* C12: a create request stores its query id in the node it creates, the node
\* keeps it until it is closed, and every message a handler sends to the
\* callback for an event that arrives with the link token of a node carries the
\* query id of that node, with any number of live nodes and the events of the
\* loaders in any order; no message carries the query id of another node.
C12_TaggedWithOwnQueryId ==
  [](CreatedWithQueryId /\ ForwardedWithQueryId) /\ [][QueryIdKept]_vars

\* two jobs with different query ids are live before hangup, and the loader of a
\* closed node still holds its link token
C12_Witness ==
  /\ Alive /\ ~stop_flag_
  /\ \E a \in LiveIds(nodes_container_), b \in LiveIds(nodes_container_) :
       /\ get(nodes_container_, a).query_id_ # get(nodes_container_, b).query_id_
       /\ a \in DOMAIN actors /\ b \in DOMAIN actors
       /\ Len(on_partial_download(Self, b).out) = 1
  /\ \E old_id \in DOMAIN actors : old_id \notin LiveIds(nodes_container_)

\* ------------------------------------------------------------------ C13

\* the terminal events a loader may send with a link token, each with the
\* message the callback gets for it before hangup
TerminalResults(node_id) ==
  {[event |-> "on_download_ok", status |-> "", r |-> on_ok_download(Self, node_id)],
   [event |-> "on_upload_ok", status |-> "", r |-> on_ok_upload(Self, node_id)],
   [event |-> "on_upload_full_ok", status |-> "", r |-> on_ok_upload_full(Self, node_id)]}
  \cup {[event |-> "on_error", status |-> status, r |-> on_error(Self, node_id, status)] :
          status \in Statuses}

\* what closing a node leaves of the registry: the node and its query id are
\* gone, every other node and every other query id is as it was, and the
\* loader of the node has been told to hang up
Reclaimed(r, node_id) ==
  LET query_id == get(nodes_container_, node_id).query_id_
  IN /\ ~r.crashed
     /\ ~Resolves(r.nodes_container_, node_id)
     /\ LiveIds(r.nodes_container_) = LiveIds(nodes_container_) \ {node_id}
     /\ \A other \in LiveIds(r.nodes_container_) :
          get(r.nodes_container_, other) = get(nodes_container_, other)
     /\ ~MapFind(r.query_id_to_node_id_, query_id)
     /\ r.query_id_to_node_id_ = MapErase(query_id_to_node_id_, query_id)
     /\ node_id \in DOMAIN actors => ~r.actors[node_id].owned

\* C13: on_ok_download, on_ok_upload, on_ok_upload_full and on_error with a
\* link token that resolves to a live node close the node within the handler,
\* before hangup and after it: the node leaves nodes_container_ and its query
\* id leaves query_id_to_node_id_.  Before hangup the handler has sent the
\* callback one message, built from the node while it was still there (it
\* carries the query id of the node); after hangup it has sent none.
C13_TerminalEventReclaims ==
  Alive =>
    \A node_id \in LiveIds(nodes_container_) :
      \A t \in TerminalResults(node_id) :
        /\ Reclaimed(t.r, node_id)
        /\ t.r.out = IF stop_flag_ THEN <<>>
                     ELSE <<[event |-> t.event,
                             query_id |-> get(nodes_container_, node_id).query_id_,
                             status |-> t.status, node_id |-> node_id]>>

\* after hangup a job is live and its loader holds its link token, and a
\* terminal event has closed another node before
C13_Witness ==
  /\ Alive /\ stop_flag_
  /\ \E node_id \in LiveIds(nodes_container_) :
       /\ node_id \in DOMAIN actors
       /\ ~Resolves(on_ok_upload(Self, node_id).nodes_container_, node_id)
  /\ \E old_id \in terminated : ~Resolves(nodes_container_, old_id)

\* ------------------------------------------------------------------ C14

\* the lifecycle of the actor
Running == started /\ ~stop_flag_ /\ ~stopped
Draining == stop_flag_ /\ ~stopped
Stopped == stopped

\* stop() has been called exactly in the states where stop_flag_ is set and no
\* node is left
StoppedWhenDrained ==
  /\ stopped <=> (stop_flag_ /\ ContainerEmpty(nodes_container_))
  /\ stopped => DOMAIN query_id_to_node_id_ = {}

\* a step never takes stop_flag_ or stop() back, and the step that stops the
\* actor is hangup or one that closes a node
LifecycleStep ==
  /\ stop_flag_ => stop_flag_'
  /\ stopped => stopped'
  /\ (~stopped /\ stopped') =>
       \/ ~stop_flag_ /\ stop_flag_'
       \/ /\ stop_flag_
          /\ LiveIds(nodes_container_') # LiveIds(nodes_container_)
          /\ LiveIds(nodes_container_') \subseteq LiveIds(nodes_container_)

\* C14: the actor goes from running (stop_flag_ not set) to draining
\* (stop_flag_ set, stop() not called) to stopped and never back.  It is
\* stopped exactly in the states where stop_flag_ is set and nodes_container_
\* is empty: stop() is called in the step (hangup, or the closing of the last
\* node) that first makes both true, and never while stop_flag_ is not set or
\* a node is left.
C14_Lifecycle ==
  [](StoppedWhenDrained) /\ [][LifecycleStep]_vars

\* the actor has stopped after nodes were closed, with loaders that still hold
\* their link tokens
C14_Witness ==
  Stopped /\ terminated # {} /\ DOMAIN actors # {}

\* ------------------------------------------------------------------ C15

\* what hangup leaves behind: stop_flag_ set, every node still in
\* nodes_container_ with its query id and without its loader, every loader of
\* a node told to hang up, query_id_to_node_id_ as it was, nothing sent
HangupReleasesOnly ==
  (Alive /\ ~stop_flag_) =>
    LET r == hangup(Self)
    IN /\ r.stop_flag_
       /\ LiveIds(r.nodes_container_) = LiveIds(nodes_container_)
       /\ \A node_id \in LiveIds(nodes_container_) :
            /\ get(r.nodes_container_, node_id).query_id_ = get(nodes_container_, node_id).query_id_
            /\ get(r.nodes_container_, node_id).loader_ = NoActor
            /\ node_id \in DOMAIN actors => ~r.actors[node_id].owned
       /\ DOMAIN r.actors = DOMAIN actors
       /\ r.query_id_to_node_id_ = query_id_to_node_id_
       /\ r.out = <<>>
       /\ r.stopped = ContainerEmpty(nodes_container_)

\* after hangup no request of the caller removes a node, and an event that
\* arrives with a link token removes at most the node the token resolves to
LeavesByEventOnly ==
  (Alive /\ stop_flag_) =>
    /\ \A query_id \in QueryIds :
         \A r \in CreateResults(query_id) \cup QueryResults(query_id) :
           /\ r.nodes_container_ = nodes_container_
           /\ r.query_id_to_node_id_ = query_id_to_node_id_
    /\ \A node_id \in NodeIds :
         \A r \in EventResults(node_id) :
           /\ LiveIds(nodes_container_) \ {node_id} \subseteq LiveIds(r.nodes_container_)
           /\ LiveIds(r.nodes_container_) \subseteq LiveIds(nodes_container_)

\* C15: hangup drops the loader of every live node in one step and removes no
\* node and no entry of query_id_to_node_id_: the live nodes after hangup are
\* the live nodes before it.  From then on a node leaves only through a
\* terminal event or the hangup_shared of its own link token.
C15_HangupKeepsJobs ==
  HangupReleasesOnly /\ LeavesByEventOnly

\* hangup has run with two live jobs: both are still there, without loaders
C15_Witness ==
  /\ Alive /\ stop_flag_
  /\ Cardinality(LiveIds(nodes_container_)) = 2
  /\ Cardinality(DOMAIN query_id_to_node_id_) = 2
  /\ \A node_id \in LiveIds(nodes_container_) :
       /\ get(nodes_container_, node_id).loader_ = NoActor
       /\ node_id \in DOMAIN actors /\ ~actors[node_id].owned

\* ------------------------------------------------------------------ C16

\* the messages to the callback that end a job
TerminalEvents == {"on_download_ok", "on_upload_ok", "on_upload_full_ok", "on_error"}

\* the results of every handler in the current state
HandlerResults ==
  UNION {CreateResults(query_id) \cup QueryResults(query_id) : query_id \in QueryIds}
  \cup UNION {EventResults(node_id) : node_id \in NodeIds}
  \cup {hangup(Self)}

\* the terminal messages a handler has sent for a node
TerminalMessages(r, node_id) ==
  {i \in 1..Len(r.out) : r.out[i].event \in TerminalEvents /\ r.out[i].node_id = node_id}

\* the nodes a handler has closed
ClosedBy(r) == LiveIds(nodes_container_) \ LiveIds(r.nodes_container_)

\* a handler sends a terminal message for a node only when it closes the node,
\* and before hangup it sends exactly one, with the query id of the node, for
\* every node it closes
OneTerminalMessagePerClose ==
  Alive =>
    \A r \in HandlerResults :
      ~r.crashed =>
        /\ \A i \in 1..Len(r.out) :
             r.out[i].event \in TerminalEvents => r.out[i].node_id \in ClosedBy(r)
        /\ ~stop_flag_ =>
             \A node_id \in ClosedBy(r) :
               /\ Cardinality(TerminalMessages(r, node_id)) = 1
               /\ \A i \in TerminalMessages(r, node_id) :
                    r.out[i].query_id = get(nodes_container_, node_id).query_id_

\* the message names the cause: the status of the loader as it came, and
\* "Canceled" for cancel and for hangup_shared
CauseForwarded ==
  (Alive /\ ~stop_flag_) =>
    \A node_id \in LiveIds(nodes_container_) :
      /\ \A status \in Statuses :
           on_error(Self, node_id, status).out[1] =
             [event |-> "on_error", query_id |-> get(nodes_container_, node_id).query_id_,
              status |-> status, node_id |-> node_id]
      /\ on_ok_download(Self, node_id).out[1].event = "on_download_ok"
      /\ on_ok_upload(Self, node_id).out[1].event = "on_upload_ok"
      /\ on_ok_upload_full(Self, node_id).out[1].event = "on_upload_full_ok"
      /\ hangup_shared(Self, node_id).out[1].status = "Canceled"
      /\ cancel(Self, get(nodes_container_, node_id).query_id_).out[1].status = "Canceled"

\* C16: before hangup, every handler that closes a node has sent the callback
\* exactly one terminal message (on_download_ok, on_upload_ok,
\* on_upload_full_ok or on_error) for it, whether the loader succeeded, failed
\* (its status is passed on as it came) or the job was canceled; no handler
\* sends a terminal message for a node it does not close, and a closed node
\* never resolves again, so no node gets a second one.
C16_OneTerminalEvent ==
  /\ OneTerminalMessagePerClose
  /\ CauseForwarded
  /\ \A node_id \in terminated : ~Resolves(nodes_container_, node_id)

\* before hangup two nodes have been closed and a job is live
C16_Witness ==
  /\ Alive /\ ~stop_flag_
  /\ Cardinality(terminated) >= 2
  /\ \E node_id \in LiveIds(nodes_container_) :
       /\ node_id \in DOMAIN actors
       /\ Cardinality(TerminalMessages(on_ok_download(Self, node_id), node_id)) = 1

\* ------------------------------------------------------------------ C17

\* the cells of the two maps that hold a download resource manager
DownloadCellsOf(s) == {cell \in DownloadCells : CellActor(s, cell) # NoResourceManager}

\* the resource managers a handler has created
Creations(r) ==
  {r.rm_out[i].rm : i \in {j \in 1..Len(r.rm_out) : r.rm_out[j].method = "create_actor"}}

\* no handler removes or replaces a download resource manager, and only
\* download creates one
HandlersKeepPools ==
  Alive =>
    \A r \in HandlerResults :
      /\ DownloadCellsOf(Self) \subseteq DownloadCellsOf(r)
      /\ \A cell \in DownloadCellsOf(Self) : CellActor(r, cell) = CellActor(Self, cell)
      /\ Creations(r) = DownloadCellsOf(r) \ DownloadCellsOf(Self)

\* download creates the resource manager of its cell if the cell is empty and
\* uses the one that is there otherwise
FirstUseCreates ==
  (Alive /\ ~stop_flag_) =>
    \A pos \in Positions, remote_location \in RemoteLocations, size \in Sizes :
      LET r == download(Self, pos, 1, remote_location, size, 1)
          cell == DownloadResourceManagerCell(is_small_size(size), download_dc_id(remote_location))
      IN /\ DownloadCellsOf(r) = DownloadCellsOf(Self) \cup {cell}
         /\ Creations(r) = {cell} \ DownloadCellsOf(Self)
         /\ {m.rm : m \in Registrations(r)} = {cell}

\* a step keeps every download resource manager there is
PoolsKept ==
  /\ \A d \in DOMAIN download_small_resource_manager_map_ :
       /\ d \in DOMAIN download_small_resource_manager_map_'
       /\ download_small_resource_manager_map_'[d] = download_small_resource_manager_map_[d]
  /\ \A d \in DOMAIN download_resource_manager_map_ :
       /\ d \in DOMAIN download_resource_manager_map_'
       /\ download_resource_manager_map_'[d] = download_resource_manager_map_[d]

\* C17: a download resource manager is created by the first download of its
\* size class and data centre and stays: the keys of the two maps only grow
\* over every step, a handler that closes a node (on_ok_*, on_error, cancel,
\* hangup_shared) leaves every resource manager as it is, and a later download
\* with the same size class and data centre registers with the one that is
\* there and creates none.
C17_PoolsOnlyGrow ==
  [](HandlersKeepPools /\ FirstUseCreates) /\ [][PoolsKept]_vars

\* every job has been closed and a download resource manager is still there
\* for a new download to use
C17_Witness ==
  /\ Alive /\ ~stop_flag_
  /\ terminated # {} /\ ContainerEmpty(nodes_container_)
  /\ \E pos \in Positions, remote_location \in RemoteLocations, size \in Sizes :
       /\ DownloadResourceManagerCell(is_small_size(size), download_dc_id(remote_location))
            \in DownloadCellsOf(Self)
       /\ Creations(download(Self, pos, 1, remote_location, size, 1)) = {}

\* ------------------------------------------------------------------ C18

\* C18: once hangup has set stop_flag_, download, upload, upload_by_hash,
\* from_bytes, update_priority, update_local_file_location,
\* update_downloaded_part and cancel return at once: no node and no loader is
\* created, nothing is sent to a resource manager, to a loader or to the
\* callback, and the registry is as it was.  A create request with the query
\* id of a live job does not abort the process, and cancel of a live job
\* leaves the job in place.
C18_NoOpAfterHangup ==
  stop_flag_ =>
    \A query_id \in QueryIds :
      \A r \in CreateResults(query_id) \cup QueryResults(query_id) :
        /\ r.out = <<>> /\ r.loader_out = <<>> /\ r.rm_out = <<>>
        /\ Registry(r) = Registry(Self)
        /\ DOMAIN r.actors = DOMAIN actors
        /\ ~r.crashed
        /\ JobsOf(r, query_id) = JobsOf(Self, query_id)

\* after hangup one query id has a live job, whose loader holds its link
\* token, and another query id has none
C18_Witness ==
  /\ Alive /\ stop_flag_
  /\ \E known \in QueryIds, unknown \in QueryIds :
       /\ \E node_id \in JobsOf(Self, known) : node_id \in DOMAIN actors
       /\ MapFind(query_id_to_node_id_, known)
       /\ ~TokenLive(Self, unknown)
       /\ cancel(Self, known).nodes_container_ = nodes_container_

\* ------------------------------------------------------------------ C19

\* C19: before hangup, when a loader drops its link token (hangup_shared)
\* while its node is live, the handler sends the callback exactly one on_error
\* with "Canceled" and the query id of the node and closes the node; it leaves
\* exactly what cancel of that query id leaves, so the callback cannot tell
\* the two apart.  When the node has been closed already, hangup_shared sends
\* nothing and changes nothing.
C19_HangupSharedCancels ==
  (Alive /\ ~stop_flag_) =>
    \A node_id \in NodeIds :
      LET r == hangup_shared(Self, node_id)
      IN IF node_id \in LiveIds(nodes_container_)
         THEN /\ r.out = <<[event |-> "on_error",
                            query_id |-> get(nodes_container_, node_id).query_id_,
                            status |-> "Canceled", node_id |-> node_id]>>
              /\ Reclaimed(r, node_id)
              /\ r.out = cancel(Self, get(nodes_container_, node_id).query_id_).out
              /\ Registry(r) = Registry(cancel(Self, get(nodes_container_, node_id).query_id_))
         ELSE r.out = <<>> /\ Registry(r) = Registry(Self)

\* before hangup a loader that was not told to hang up holds the link token of
\* a live job, and another loader holds the link token of a closed node
C19_Witness ==
  /\ Alive /\ ~stop_flag_
  /\ \E node_id \in LiveIds(nodes_container_) :
       /\ node_id \in DOMAIN actors /\ actors[node_id].owned
       /\ Len(hangup_shared(Self, node_id).out) = 1
  /\ \E old_id \in DOMAIN actors :
       old_id \notin LiveIds(nodes_container_) /\ hangup_shared(Self, old_id).out = <<>>

\* ------------------------------------------------------------------ C20

\* C20: in every state a handler that ran to its end leaves (a create request,
\* cancel, an event of a loader, hangup; not a failed CHECK, which aborts the
\* process inside the handler), query_id_to_node_id_ and nodes_container_
\* agree: every query id of the map points to a node id that resolves to a
\* node with that query id, and the query id of every live node is in the map
\* and points to the id of that node.
C20_MapMatchesContainer ==
  ~crashed =>
    /\ \A query_id \in DOMAIN query_id_to_node_id_ :
         /\ Resolves(nodes_container_, query_id_to_node_id_[query_id])
         /\ get(nodes_container_, query_id_to_node_id_[query_id]).query_id_ = query_id
    /\ \A node_id \in LiveIds(nodes_container_) :
         /\ MapFind(query_id_to_node_id_, get(nodes_container_, node_id).query_id_)
         /\ query_id_to_node_id_[get(nodes_container_, node_id).query_id_] = node_id
    /\ Cardinality(DOMAIN query_id_to_node_id_) = Cardinality(LiveIds(nodes_container_))

\* two jobs are live, one of them in a slot that held a closed node before
C20_Witness ==
  /\ ~crashed
  /\ Cardinality(DOMAIN query_id_to_node_id_) = 2
  /\ \E old_id \in terminated :
       \E query_id \in DOMAIN query_id_to_node_id_ :
         /\ query_id_to_node_id_[query_id].slot = old_id.slot
         /\ query_id_to_node_id_[query_id].generation > old_id.generation

====
